---- MODULE Spec2Model ----
(***************************************************************************)
(* Model of the monitoring dashboard backend (src/src/main.rs): the        *)
(* /api/status handler get_full_status with its helpers measure_latency    *)
(* and get_top_ram_processes, and the /api/logs/:name handler              *)
(* get_container_logs, running as concurrent tasks over the shared         *)
(* AppState { sys: Mutex<System>, networks: Mutex<Networks>, docker }.     *)
(***************************************************************************)
EXTENDS Integers, Sequences, FiniteSets

(***************************************************************************)
(* Bounds of the model.                                                    *)
(***************************************************************************)
\* number of concurrent /api/status requests
NumRequests == 2
\* longest duration of one connection attempt, in clock ticks
MaxDur == 2
\* longest /proc listing
MaxProcs == 3
\* longest stored log of a container, in lines
MaxLogLines == 2

(***************************************************************************)
(* Program constants.                                                      *)
(***************************************************************************)
PageSize == 4096
RamFloorMb == 10
TopN == 3
Kib == 1024
LogWindowMinutes == 30
LogTail == 100

Requests == 1..NumRequests

(***************************************************************************)
(* u64 arithmetic.  A u64 is written in base 1024 as seven limbs, least    *)
(* significant first; the seventh limb holds bits 60..63 and is below 16.  *)
(* `x / 1024` drops the lowest limb; `a - b` borrows limb by limb and      *)
(* wraps at 2^64 when the build has no overflow checks.                    *)
(***************************************************************************)
NumLimbs == 7
TopLimbBase == 16

LimbBase(i) == IF i = NumLimbs THEN TopLimbBase ELSE Kib

Zero64 == [i \in 1..NumLimbs |-> 0]

\* n bytes, n KiB, n MiB, n GiB for n < 1024
Bytes(n) == [i \in 1..NumLimbs |-> IF i = 1 THEN n ELSE 0]
Ki(n) == [i \in 1..NumLimbs |-> IF i = 2 THEN n ELSE 0]
Mi(n) == [i \in 1..NumLimbs |-> IF i = 3 THEN n ELSE 0]
Gi(n) == [i \in 1..NumLimbs |-> IF i = 4 THEN n ELSE 0]

\* x / 1024 on u64
DivKib(x) == [i \in 1..NumLimbs |-> IF i < NumLimbs THEN x[i + 1] ELSE 0]

RECURSIVE Borrow(_, _, _)
\* the borrow out of limb i of a - b
Borrow(a, b, i) ==
    IF i = 0 THEN 0
    ELSE IF a[i] - b[i] - Borrow(a, b, i - 1) < 0 THEN 1 ELSE 0

\* a - b overflows u64 (b > a)
SubOverflows(a, b) == Borrow(a, b, NumLimbs) = 1

\* a - b modulo 2^64
WrappingSub(a, b) ==
    [i \in 1..NumLimbs |-> (a[i] - b[i] - Borrow(a, b, i - 1)) % LimbBase(i)]

RECURSIVE LeqFrom(_, _, _)
\* a <= b, comparing limbs i, i-1, ..., 1
LeqFrom(a, b, i) ==
    IF i = 0 THEN TRUE
    ELSE IF a[i] # b[i] THEN a[i] < b[i]
    ELSE LeqFrom(a, b, i - 1)

Leq64(a, b) == LeqFrom(a, b, NumLimbs)

(***************************************************************************)
(* Text.  A string is the sequence of its characters; an Option is a       *)
(* sequence of length 0 (None) or 1 (Some).                                *)
(***************************************************************************)
None == <<>>
Some(x) == <<x>>

RECURSIVE Concat(_)
\* Vec<String>::join("")
Concat(ss) == IF ss = <<>> THEN <<>> ELSE Head(ss) \o Concat(Tail(ss))

RECURSIVE RemoveChar(_, _)
\* str::replace(ch, "")
RemoveChar(s, ch) ==
    IF s = <<>> THEN <<>>
    ELSE IF Head(s) = ch THEN RemoveChar(Tail(s), ch)
    ELSE <<Head(s)>> \o RemoveChar(Tail(s), ch)

RECURSIVE Split(_, _)
\* str::split(ch).collect(): always at least one part
Split(s, ch) ==
    IF s = <<>> THEN << <<>> >>
    ELSE LET rest == Split(Tail(s), ch)
         IN  IF Head(s) = ch THEN << <<>> >> \o rest
             ELSE << <<Head(s)>> \o Head(rest) >> \o Tail(rest)

\* str::contains
Contains(hay, needle) ==
    \E i \in 0..(Len(hay) - Len(needle)) :
        SubSeq(hay, i + 1, i + Len(needle)) = needle

Colon == ":"
NoneNone == <<"n", "o", "n", "e", ":", "n", "o", "n", "e">>
Unknown == <<"u", "n", "k", "n", "o", "w", "n">>
Latest == <<"l", "a", "t", "e", "s", "t">>

\* Vec::truncate(n)
Truncate(s, n) == IF Len(s) <= n THEN s ELSE SubSeq(s, 1, n)

(***************************************************************************)
(* get_top_ram_processes.  A /proc entry is a record                       *)
(*   meta   : "dir", "file", or "err" when metadata() fails                *)
(*   numeric: the file name consists of digits                             *)
(*   statm  : None when statm is unreadable or its second field does not   *)
(*            parse, Some(resident pages) otherwise                        *)
(*   comm   : None when comm is unreadable, Some(name) otherwise           *)
(***************************************************************************)
\* resident pages to whole megabytes
RamMbOf(resident_pages) == ((resident_pages * PageSize) \div Kib) \div Kib

IsSpace(ch) == ch \in {" ", "\n", "\t"}

RECURSIVE TrimStart(_)
TrimStart(s) == IF s # <<>> /\ IsSpace(Head(s)) THEN TrimStart(Tail(s)) ELSE s

RECURSIVE TrimEnd(_)
TrimEnd(s) ==
    IF s # <<>> /\ IsSpace(s[Len(s)]) THEN TrimEnd(SubSeq(s, 1, Len(s) - 1)) ELSE s

\* str::trim
Trim(s) == TrimEnd(TrimStart(s))

\* ScanEntry with the floor included
ScanEntry_AtLeast(e) ==
    IF e.meta = "file" THEN <<>>
    ELSE IF ~e.numeric THEN <<>>
    ELSE IF e.statm = None THEN <<>>
    ELSE LET ram_mb == RamMbOf(e.statm[1])
         IN  IF ram_mb >= RamFloorMb
             THEN << [name |-> IF e.comm = None THEN Unknown ELSE Trim(e.comm[1]),
                      ram_mb |-> ram_mb] >>
             ELSE <<>>

\* the ProcessInfo pushed for one entry, if any
ScanEntry(e) ==
    IF e.meta = "file" THEN <<>>
    ELSE IF ~e.numeric THEN <<>>
    ELSE IF e.statm = None THEN <<>>
    ELSE LET ram_mb == RamMbOf(e.statm[1])
         IN  IF ram_mb > RamFloorMb
             THEN << [name |-> IF e.comm = None THEN Unknown ELSE Trim(e.comm[1]),
                      ram_mb |-> ram_mb] >>
             ELSE <<>>

RECURSIVE ScanProc(_)
\* the loop over read_dir("/proc")
ScanProc(entries) ==
    IF entries = <<>> THEN <<>>
    ELSE ScanEntry(Head(entries)) \o ScanProc(Tail(entries))

\* insert p into t (sorted by ram_mb, largest first) behind its equals
InsertDesc(t, p) ==
    LET k == Cardinality({i \in 1..Len(t) : t[i].ram_mb >= p.ram_mb})
    IN  SubSeq(t, 1, k) \o <<p>> \o SubSeq(t, k + 1, Len(t))

RECURSIVE SortDesc(_)
\* procs.sort_by(|a, b| b.ram_mb.cmp(&a.ram_mb)), a stable sort
SortDesc(s) ==
    IF s = <<>> THEN <<>>
    ELSE InsertDesc(SortDesc(SubSeq(s, 1, Len(s) - 1)), s[Len(s)])

get_top_ram_processes(entries) == Truncate(SortDesc(ScanProc(entries)), TopN)

(***************************************************************************)
(* Disks.  A disk of the provider is [name, mount_point, total, available] *)
(* with total and available u64 byte counts.                               *)
(***************************************************************************)
DivGib(x) == DivKib(DivKib(DivKib(x)))

DiskInfoOf(d) ==
    [name |-> d.name,
     mount_point |-> d.mount_point,
     total_gb |-> DivGib(d.total),
     used_gb |-> DivGib(WrappingSub(d.total, d.available))]

\* `total - available` panics under overflow checks for some disk
DisksPanic(disks, checks) ==
    checks /\ \E i \in 1..Len(disks) : SubOverflows(disks[i].total, disks[i].available)

DisksOf(disks) == [i \in 1..Len(disks) |-> DiskInfoOf(disks[i])]

\* bytes to whole megabytes
DivMib(x) == DivKib(DivKib(x))

(***************************************************************************)
(* Containers and images.                                                  *)
(*   container: [names: Option(Seq(String)), image_id: Option(String),     *)
(*               ports: Option(Seq([public_port: Option, private_port])),  *)
(*               status: Option, state: Option]                            *)
(*   image:     [repo_tags: Seq(String), id: String, size: u64]            *)
(***************************************************************************)
UnwrapOrDefault(opt) == IF opt = None THEN <<>> ELSE opt[1]

\* the "pub:priv" items of the bindings that have a public port
RECURSIVE PortInfo(_)
PortInfo(ports) ==
    IF ports = <<>> THEN <<>>
    ELSE LET p == Head(ports)
         IN  (IF p.public_port = None THEN <<>>
              ELSE << <<p.public_port[1], p.private_port>> >>)
             \o PortInfo(Tail(ports))

ContainerInfoOf(c) ==
    LET port_info == PortInfo(UnwrapOrDefault(c.ports))
    IN  [name |-> RemoveChar(Concat(UnwrapOrDefault(c.names)), "/"),
         status |-> UnwrapOrDefault(c.status),
         state |-> UnwrapOrDefault(c.state),
         ports |-> [dash |-> port_info = <<>>, bindings |-> port_info]]

\* step 4: the Ok branch fills containers and used_image_ids, the Err branch
\* leaves both empty
ContainersOf(result) ==
    IF result.ok
    THEN [i \in 1..Len(result.list) |-> ContainerInfoOf(result.list[i])]
    ELSE <<>>

UsedImageIdsOf(result) ==
    IF result.ok
    THEN {result.list[i].image_id[1] :
            i \in {j \in 1..Len(result.list) : result.list[j].image_id # None}}
    ELSE {}

\* str::get(7..19)
ShortId(id) == IF Len(id) >= 19 THEN SubSeq(id, 8, 19) ELSE Unknown

\* ImageInfoOf with the displayed id looked up
ImageInfoOf_ShortId(img, used_image_ids) ==
    LET repo_tag == IF img.repo_tags = <<>> THEN NoneNone ELSE img.repo_tags[1]
        parts == Split(repo_tag, Colon)
    IN  [repo |-> parts[1],
         tag |-> IF Len(parts) >= 2 THEN parts[2] ELSE Latest,
         id |-> ShortId(img.id),
         size_gb |-> [bytes |-> img.size, per |-> "GiB"],
         in_use |-> ShortId(img.id) \in used_image_ids]

ImageInfoOf(img, used_image_ids) ==
    LET repo_tag == IF img.repo_tags = <<>> THEN NoneNone ELSE img.repo_tags[1]
        parts == Split(repo_tag, Colon)
    IN  [repo |-> parts[1],
         tag |-> IF Len(parts) >= 2 THEN parts[2] ELSE Latest,
         id |-> ShortId(img.id),
         size_gb |-> [bytes |-> img.size, per |-> "GiB"],
         in_use |-> img.id \in used_image_ids]

\* step 5
ImagesOf(result, used_image_ids) ==
    IF result.ok
    THEN [i \in 1..Len(result.list) |-> ImageInfoOf(result.list[i], used_image_ids)]
    ELSE <<>>

(***************************************************************************)
(* Step 1 and 2 of get_full_status: what is read under the sys lock and    *)
(* under the networks lock.                                                *)
(***************************************************************************)
SensorsOf(components) ==
    [i \in 1..Len(components) |-> <<components[i].label, components[i].temperature>>]

HardwareOf(h) ==
    [cpu_usage |-> h.cpu_usage,
     ram_used |-> DivMib(h.used_memory),
     ram_total |-> DivMib(h.total_memory),
     swap_used |-> DivMib(h.used_swap),
     swap_total |-> DivMib(h.total_swap),
     uptime |-> h.uptime,
     load_avg |-> h.load_average,
     sensors |-> SensorsOf(h.components),
     disks |-> DisksOf(h.disks)]

NetworksOf(interfaces) ==
    [i \in 1..Len(interfaces) |->
        [name |-> interfaces[i].name,
         rx_bytes |-> interfaces[i].received,
         tx_bytes |-> interfaces[i].transmitted]]

\* Json(FullStatus { .. })
FullStatusOf(hardware, nets, lat, procs, conts, imgs) ==
    [cpu_usage |-> hardware.cpu_usage,
     ram_used_mb |-> hardware.ram_used,
     ram_total_mb |-> hardware.ram_total,
     swap_used_mb |-> hardware.swap_used,
     swap_total_mb |-> hardware.swap_total,
     uptime_secs |-> hardware.uptime,
     load_avg |-> hardware.load_avg,
     internet_latency_ms |-> lat,
     networks |-> nets,
     processes |-> procs,
     sensors |-> hardware.sensors,
     disks |-> hardware.disks,
     containers |-> conts,
     images |-> imgs]

(***************************************************************************)
(* measure_latency.  The frame of a call is [attempts, elapsed]: the       *)
(* addresses connected to so far and start.elapsed() when the last         *)
(* connect returned, in ticks of a microsecond.  An outcome of a connect is *)
(* [ok, dur], dur in ticks.  An f64 is kept as the fraction [num, den].    *)
(***************************************************************************)
PrimaryAddr == "1.1.1.1:53"
FallbackAddr == "8.8.8.8:53"

\* start.elapsed().as_secs_f64() * 1000.0
ElapsedMs(elapsed) == [num |-> elapsed * 1000, den |-> 1000000]

\* AfterPrimary with the fallback tried whatever the outcome
AfterPrimary_AlwaysFallback(frame, outcome) ==
    [attempts |-> Append(frame.attempts, FallbackAddr),
     elapsed |-> frame.elapsed + outcome.dur]

\* the frame after the connect to 1.1.1.1:53 returned `outcome`
AfterPrimary(frame, outcome) ==
    [attempts |-> IF outcome.ok THEN frame.attempts
                  ELSE Append(frame.attempts, FallbackAddr),
     elapsed |-> frame.elapsed + outcome.dur]

\* the frame after the connect to 8.8.8.8:53 returned `outcome`
AfterFallback(frame, outcome) ==
    [attempts |-> frame.attempts, elapsed |-> frame.elapsed + outcome.dur]

\* the value returned once a connect is Ok, and after both failed
LatencyOk(frame) == ElapsedMs(frame.elapsed)
LatencyFailed == [num |-> 0, den |-> 1]

(***************************************************************************)
(* The host the service runs on: what the metrics provider, /proc, the     *)
(* network and the container runtime answer.                               *)
(***************************************************************************)
WebName == <<"/", "w", "e", "b">>
DbName == <<"/", "d", "b">>
ImgA == <<"s", "h", "a", "2", "5", "6", ":", "a", "b", "c", "1", "2", "3",
          "d", "e", "f", "4", "5", "6", "7">>
ImgB == <<"s", "h", "a", "2", "5", "6", ":", "0", "0", "f", "f", "0", "0",
          "f", "f", "0", "0", "f", "f", "1">>
NginxLatest == <<"n", "g", "i", "n", "x", ":", "l", "a", "t", "e", "s", "t">>
Redis == <<"r", "e", "d", "i", "s">>
Running == <<"r", "u", "n", "n", "i", "n", "g">>
Exited == <<"e", "x", "i", "t", "e", "d">>
Bash == <<"b", "a", "s", "h", "\n">>
Java == <<"j", "a", "v", "a", "\n">>

OldLine == <<"o", "l", "d", "\n">>
NewLine == <<"n", "e", "w", "\n">>
LogTexts == {<<>>, OldLine, NewLine}
\* the names a log request asks for: a container with a log, one without
\* any output, one the runtime does not know
LogNames == {<<"w", "e", "b">>, <<"d", "b">>, <<"g", "h", "o", "s", "t">>}

WebContainer ==
    [names |-> Some(<<WebName>>), image_id |-> Some(ImgA),
     ports |-> Some(<<[public_port |-> Some(8080), private_port |-> 80],
                      [public_port |-> None, private_port |-> 443]>>),
     status |-> Some(Running), state |-> Some(Running)]

DbContainer ==
    [names |-> Some(<<DbName>>), image_id |-> None,
     ports |-> None, status |-> None, state |-> Some(Exited)]

NginxImage == [repo_tags |-> <<NginxLatest>>, id |-> ImgA, size |-> Mi(180)]
RedisImage == [repo_tags |-> <<Redis>>, id |-> ImgB, size |-> Gi(1)]
DanglingImage == [repo_tags |-> <<>>, id |-> <<"s", "h", "a">>, size |-> Zero64]

\* a process directory with `pages` resident pages
Proc(pages, comm) ==
    [meta |-> "dir", numeric |-> TRUE, statm |-> Some(pages), comm |-> comm]

\* 9 MB, exactly 10 MB, just under 11 MB, 11 MB, 20 MB, 30 MB of 4 KiB pages
ResidentPages == {2304, 2560, 2815, 2816, 5120, 7680}

ProcEntries ==
    {Proc(n, Some(Bash)) : n \in ResidentPages}
    \cup {Proc(5120, None),
          [meta |-> "dir", numeric |-> TRUE, statm |-> None, comm |-> Some(Java)],
          [meta |-> "file", numeric |-> TRUE, statm |-> Some(7680), comm |-> Some(Java)],
          [meta |-> "err", numeric |-> TRUE, statm |-> Some(7680), comm |-> Some(Java)],
          [meta |-> "dir", numeric |-> FALSE, statm |-> Some(7680), comm |-> Some(Java)]}

RECURSIVE SeqsUpTo(_, _)
\* the sequences over S of length at most n
SeqsUpTo(S, n) ==
    IF n = 0 THEN {<<>>}
    ELSE LET shorter == SeqsUpTo(S, n - 1)
         IN  shorter \cup {Append(t, x) : t \in {u \in shorter : Len(u) = n - 1}, x \in S}

ProcTables == SeqsUpTo(ProcEntries, MaxProcs)

Disk(total, available) ==
    [name |-> "sda1", mount_point |-> "/", total |-> total, available |-> available]

\* byte counts: 0, 1 B, 1 GiB - 1 B, 1 GiB, 100 GiB, 200 GiB, 500 GiB, 2^64 - 1
U64Samples ==
    {Zero64, Bytes(1), [i \in 1..NumLimbs |-> IF i <= 3 THEN Kib - 1 ELSE 0],
     Gi(1), Gi(100), Gi(200), Gi(500),
     [i \in 1..NumLimbs |-> LimbBase(i) - 1]}

ConnectOutcomes == [ok : BOOLEAN, dur : 1..MaxDur]

BaseHost ==
    [cpu_usage |-> 12,
     used_memory |-> Gi(3), total_memory |-> Gi(8),
     used_swap |-> Mi(512), total_swap |-> Gi(2),
     uptime |-> 3600,
     load_average |-> <<1, 2, 3>>,
     components |-> <<[label |-> "cpu", temperature |-> 45]>>,
     disks |-> <<Disk(Gi(500), Gi(200)),
                 [name |-> "sdb1", mount_point |-> "/data",
                  total |-> Gi(100), available |-> Gi(100)]>>,
     interfaces |-> <<[name |-> "eth0", received |-> Ki(5), transmitted |-> Ki(1)]>>,
     proc |-> <<Proc(7680, Some(Java)), Proc(2560, Some(Bash)), Proc(5120, None)>>,
     scan_joins |-> TRUE,
     primary |-> [ok |-> FALSE, dur |-> 1],
     fallback |-> [ok |-> TRUE, dur |-> 1],
     containers |-> <<WebContainer, DbContainer>>,
     images |-> <<NginxImage, RedisImage, DanglingImage>>,
     now |-> 2000,
     web_logs |-> <<[ts |-> 100, text |-> OldLine], [ts |-> 1900, text |-> NewLine]>>]

\* a host whose disk reports more available than total bytes
OverfullHost == [BaseHost EXCEPT !.disks = <<Disk(Gi(100), Gi(200))>>]

\* hosts of the concurrent specification
Hosts == {BaseHost, OverfullHost}

\* hosts for the disk conversion, the process scan, the probe and the logs
DiskHosts ==
    {[BaseHost EXCEPT !.disks = <<Disk(t, a)>>] : t \in U64Samples, a \in U64Samples}

ProcHosts == {[BaseHost EXCEPT !.proc = t] : t \in ProcTables}

ProbeHosts ==
    {[BaseHost EXCEPT !.primary = p, !.fallback = f] :
        p \in ConnectOutcomes, f \in ConnectOutcomes}

LogLines == [ts : {100, 1900}, text : LogTexts]

LogHosts == {[BaseHost EXCEPT !.web_logs = l] : l \in SeqsUpTo(LogLines, MaxLogLines)}

(***************************************************************************)
(* get_container_logs.  The runtime keeps, per container, the lines it     *)
(* logged with their timestamps; docker.logs answers with a stream of      *)
(* items, Ok(text) or Err.                                                 *)
(***************************************************************************)
NoLogs == <<"N", "o", " ", "l", "o", "g", "s", " ", "i", "n", " ",
            "l", "a", "s", "t", " ", "3", "0", "m", ".">>

\* LogsOptions { stdout, stderr, since, tail }
LogsOptionsOf(now) ==
    [stdout |-> TRUE, stderr |-> TRUE,
     since |-> now - LogWindowMinutes * 60,
     tail |-> LogTail]

ErrItem == [ok |-> FALSE, text |-> <<>>]

RECURSIVE Since(_, _)
\* the lines logged at or after `since`
Since(lines, since) ==
    IF lines = <<>> THEN <<>>
    ELSE (IF Head(lines).ts >= since THEN <<Head(lines)>> ELSE <<>>)
         \o Since(Tail(lines), since)

\* the last n lines
TailOf(lines, n) ==
    IF Len(lines) <= n THEN lines ELSE SubSeq(lines, Len(lines) - n + 1, Len(lines))

\* the lines the runtime holds for `name`; None for a container it does not know
StoredLogs(h, name) ==
    IF name = <<"w", "e", "b">> THEN Some(h.web_logs)
    ELSE IF name = <<"d", "b">> THEN Some(<<>>)
    ELSE None

\* the items the runtime has to send for docker.logs(name, options)
RuntimeLogs(h, up, name, options) ==
    IF ~up \/ StoredLogs(h, name) = None THEN <<ErrItem>>
    ELSE LET lines == TailOf(Since(StoredLogs(h, name)[1], options.since), options.tail)
         IN  [i \in 1..Len(lines) |-> [ok |-> TRUE, text |-> lines[i].text]]

\* the streams the handler can see: all items, or some of them and an error
LogStreams(items) ==
    {items} \cup {SubSeq(items, 1, k) \o <<ErrItem>> : k \in 0..Len(items)}

(***************************************************************************)
(* State.                                                                  *)
(***************************************************************************)
VARIABLES
    overflow_checks,  \* the build panics on integer overflow (debug profile)
    host,             \* the host, see BaseHost
    docker_up,        \* the container runtime answers
    sys_holders,      \* the tasks holding AppState.sys
    sys_poisoned,     \* a task panicked while holding AppState.sys
    net_holders,      \* the tasks holding AppState.networks
    pc,               \* where each /api/status task is
    hw,               \* the tuple bound by step 1
    networks_list,
    probe,            \* the frame of measure_latency
    latency,
    processes,
    c_result,         \* what list_containers returned
    containers,
    used_image_ids,
    i_result,         \* what list_images returned
    images,
    response,         \* the FullStatus returned
    log_pc,           \* where the /api/logs task is
    log_name,         \* its path parameter
    log_stream,       \* the items docker.logs has still to yield
    log_seen,         \* the number of items it yielded
    log_output,
    log_response

env_vars == <<overflow_checks, host>>
lock_vars == <<sys_holders, sys_poisoned, net_holders>>
status_vars == <<pc, hw, networks_list, probe, latency, processes, c_result,
                 containers, used_image_ids, i_result, images, response>>
log_vars == <<log_pc, log_name, log_stream, log_seen, log_output, log_response>>
vars == <<env_vars, docker_up, lock_vars, status_vars, log_vars>>

NoHardware == [cpu_usage |-> 0, ram_used |-> Zero64, ram_total |-> Zero64,
               swap_used |-> Zero64, swap_total |-> Zero64, uptime |-> 0,
               load_avg |-> <<0, 0, 0>>, sensors |-> <<>>, disks |-> <<>>]
NoFrame == [attempts |-> <<>>, elapsed |-> 0]
NoResult == [ok |-> FALSE, list |-> <<>>]
NoResponse == FullStatusOf(NoHardware, <<>>, LatencyFailed, <<>>, <<>>, <<>>)

\* main(): the state is built, no request has arrived
Idle ==
    /\ sys_holders = {}
    /\ sys_poisoned = FALSE
    /\ net_holders = {}
    /\ pc = [r \in Requests |-> "idle"]
    /\ hw = [r \in Requests |-> NoHardware]
    /\ networks_list = [r \in Requests |-> <<>>]
    /\ probe = [r \in Requests |-> NoFrame]
    /\ latency = [r \in Requests |-> LatencyFailed]
    /\ processes = [r \in Requests |-> <<>>]
    /\ c_result = [r \in Requests |-> NoResult]
    /\ containers = [r \in Requests |-> <<>>]
    /\ used_image_ids = [r \in Requests |-> {}]
    /\ i_result = [r \in Requests |-> NoResult]
    /\ images = [r \in Requests |-> <<>>]
    /\ response = [r \in Requests |-> NoResponse]
    /\ log_pc = "idle"
    /\ log_name = <<>>
    /\ log_stream = <<>>
    /\ log_seen = 0
    /\ log_output = <<>>
    /\ log_response = <<>>

Init ==
    /\ overflow_checks \in BOOLEAN
    /\ host \in Hosts
    /\ docker_up \in BOOLEAN
    /\ Idle

(***************************************************************************)
(* get_full_status, one action per step between two points where the task  *)
(* can be observed: taking a lock, leaving a block, returning from await.  *)
(***************************************************************************)
\* the router hands a GET /api/status to a new task
Arrive(r) ==
    /\ pc[r] = "idle"
    /\ pc' = [pc EXCEPT ![r] = "lock_sys"]
    /\ UNCHANGED <<env_vars, docker_up, lock_vars, hw, networks_list, probe, latency,
                   processes, c_result, containers, used_image_ids, i_result,
                   images, response, log_vars>>

\* state.sys.lock().unwrap(): waits for the mutex, panics when it is poisoned
LockSys(r) ==
    /\ pc[r] = "lock_sys"
    /\ sys_holders = {}
    /\ IF sys_poisoned
       THEN /\ pc' = [pc EXCEPT ![r] = "panicked"]
            /\ UNCHANGED sys_holders
       ELSE /\ pc' = [pc EXCEPT ![r] = "in_sys"]
            /\ sys_holders' = {r}
    /\ UNCHANGED <<env_vars, docker_up, sys_poisoned, net_holders, hw, networks_list,
                   probe, latency, processes, c_result, containers, used_image_ids,
                   i_result, images, response, log_vars>>

\* the block of step 1: refresh, read, convert, and drop the guard at its end;
\* a panic inside unwinds, which drops the guard and poisons the mutex
HardwareStats(r) ==
    /\ pc[r] = "in_sys"
    /\ sys_holders' = sys_holders \ {r}
    /\ IF DisksPanic(host.disks, overflow_checks)
       THEN /\ pc' = [pc EXCEPT ![r] = "panicked"]
            /\ sys_poisoned' = TRUE
            /\ UNCHANGED hw
       ELSE /\ pc' = [pc EXCEPT ![r] = "lock_net"]
            /\ hw' = [hw EXCEPT ![r] = HardwareOf(host)]
            /\ UNCHANGED sys_poisoned
    /\ UNCHANGED <<env_vars, docker_up, net_holders, networks_list, probe, latency,
                   processes, c_result, containers, used_image_ids, i_result,
                   images, response, log_vars>>

\* state.networks.lock().unwrap()
LockNet(r) ==
    /\ pc[r] = "lock_net"
    /\ net_holders = {}
    /\ net_holders' = {r}
    /\ pc' = [pc EXCEPT ![r] = "in_net"]
    /\ UNCHANGED <<env_vars, docker_up, sys_holders, sys_poisoned, hw, networks_list,
                   probe, latency, processes, c_result, containers, used_image_ids,
                   i_result, images, response, log_vars>>

\* ReadNetworks with the guard bound for the rest of the function
ReadNetworks_KeepGuard(r) ==
    /\ pc[r] = "in_net"
    /\ networks_list' = [networks_list EXCEPT ![r] = NetworksOf(host.interfaces)]
    /\ probe' = [probe EXCEPT ![r] = [attempts |-> <<PrimaryAddr>>, elapsed |-> 0]]
    /\ pc' = [pc EXCEPT ![r] = "await_primary"]
    /\ UNCHANGED <<env_vars, docker_up, lock_vars, hw, latency,
                   processes, c_result, containers, used_image_ids, i_result,
                   images, response, log_vars>>

\* the block of step 2, then the call of measure_latency up to its first await
ReadNetworks(r) ==
    /\ pc[r] = "in_net"
    /\ net_holders' = net_holders \ {r}
    /\ networks_list' = [networks_list EXCEPT ![r] = NetworksOf(host.interfaces)]
    /\ probe' = [probe EXCEPT ![r] = [attempts |-> <<PrimaryAddr>>, elapsed |-> 0]]
    /\ pc' = [pc EXCEPT ![r] = "await_primary"]
    /\ UNCHANGED <<env_vars, docker_up, sys_holders, sys_poisoned, hw, latency,
                   processes, c_result, containers, used_image_ids, i_result,
                   images, response, log_vars>>

\* TcpStream::connect("1.1.1.1:53").await returns
PrimaryDone(r) ==
    /\ pc[r] = "await_primary"
    /\ probe' = [probe EXCEPT ![r] = AfterPrimary(probe[r], host.primary)]
    /\ IF host.primary.ok
       THEN /\ latency' = [latency EXCEPT ![r] = LatencyOk(probe'[r])]
            /\ pc' = [pc EXCEPT ![r] = "await_scan"]
       ELSE /\ pc' = [pc EXCEPT ![r] = "await_fallback"]
            /\ UNCHANGED latency
    /\ UNCHANGED <<env_vars, docker_up, lock_vars, hw, networks_list, processes,
                   c_result, containers, used_image_ids, i_result, images,
                   response, log_vars>>

\* TcpStream::connect("8.8.8.8:53").await returns
FallbackDone(r) ==
    /\ pc[r] = "await_fallback"
    /\ probe' = [probe EXCEPT ![r] = AfterFallback(probe[r], host.fallback)]
    /\ latency' = [latency EXCEPT ![r] =
                     IF host.fallback.ok THEN LatencyOk(probe'[r]) ELSE LatencyFailed]
    /\ pc' = [pc EXCEPT ![r] = "await_scan"]
    /\ UNCHANGED <<env_vars, docker_up, lock_vars, hw, networks_list, processes,
                   c_result, containers, used_image_ids, i_result, images,
                   response, log_vars>>

\* spawn_blocking(get_top_ram_processes).await.unwrap_or_default()
ScanDone(r) ==
    /\ pc[r] = "await_scan"
    /\ processes' = [processes EXCEPT ![r] =
                       IF host.scan_joins THEN get_top_ram_processes(host.proc)
                       ELSE <<>>]
    /\ pc' = [pc EXCEPT ![r] = "await_containers"]
    /\ UNCHANGED <<env_vars, docker_up, lock_vars, hw, networks_list, probe, latency,
                   c_result, containers, used_image_ids, i_result, images,
                   response, log_vars>>

\* what a listing of the runtime returns
Listing(up, list) == IF up THEN [ok |-> TRUE, list |-> list] ELSE NoResult

\* ContainersDone with the listing unwrapped: an Err panics
ContainersDone_Unwrap(r) ==
    /\ pc[r] = "await_containers"
    /\ c_result' = [c_result EXCEPT ![r] = Listing(docker_up, host.containers)]
    /\ containers' = [containers EXCEPT ![r] = ContainersOf(c_result'[r])]
    /\ used_image_ids' = [used_image_ids EXCEPT ![r] = UsedImageIdsOf(c_result'[r])]
    /\ pc' = [pc EXCEPT ![r] = IF docker_up THEN "await_images" ELSE "panicked"]
    /\ UNCHANGED <<env_vars, docker_up, lock_vars, hw, networks_list, probe, latency,
                   processes, i_result, images, response, log_vars>>

\* docker.list_containers(..).await returns, and step 4 runs
ContainersDone(r) ==
    /\ pc[r] = "await_containers"
    /\ c_result' = [c_result EXCEPT ![r] = Listing(docker_up, host.containers)]
    /\ containers' = [containers EXCEPT ![r] = ContainersOf(c_result'[r])]
    /\ used_image_ids' = [used_image_ids EXCEPT ![r] = UsedImageIdsOf(c_result'[r])]
    /\ pc' = [pc EXCEPT ![r] = "await_images"]
    /\ UNCHANGED <<env_vars, docker_up, lock_vars, hw, networks_list, probe, latency,
                   processes, i_result, images, response, log_vars>>

\* docker.list_images(..).await returns, step 5 runs and the handler returns
ImagesDone(r) ==
    /\ pc[r] = "await_images"
    /\ i_result' = [i_result EXCEPT ![r] = Listing(docker_up, host.images)]
    /\ images' = [images EXCEPT ![r] = ImagesOf(i_result'[r], used_image_ids[r])]
    /\ response' = [response EXCEPT ![r] =
                      FullStatusOf(hw[r], networks_list[r], latency[r], processes[r],
                                   containers[r], images'[r])]
    /\ pc' = [pc EXCEPT ![r] = "done"]
    /\ UNCHANGED <<env_vars, docker_up, lock_vars, hw, networks_list, probe, latency,
                   processes, c_result, containers, used_image_ids, log_vars>>

\* the container runtime stops or starts answering
DockerToggle ==
    /\ docker_up' = ~docker_up
    /\ UNCHANGED <<env_vars, lock_vars, status_vars, log_vars>>

(***************************************************************************)
(* get_container_logs.                                                     *)
(***************************************************************************)
\* a GET /api/logs/:name arrives; docker.logs(&name, options) opens the stream
LogsStart ==
    /\ log_pc = "idle"
    /\ \E name \in LogNames :
         /\ log_name' = name
         /\ log_stream' \in
              LogStreams(RuntimeLogs(host, docker_up, name, LogsOptionsOf(host.now)))
    /\ log_seen' = 0
    /\ log_output' = <<>>
    /\ log_pc' = "streaming"
    /\ UNCHANGED <<env_vars, docker_up, lock_vars, status_vars, log_response>>

\* logs.next().await returns Some(Ok(log)): output.push_str(&log.to_string())
LogsNext ==
    /\ log_pc = "streaming"
    /\ log_stream # <<>>
    /\ Head(log_stream).ok
    /\ log_output' = log_output \o Head(log_stream).text
    /\ log_stream' = Tail(log_stream)
    /\ log_seen' = log_seen + 1
    /\ UNCHANGED <<env_vars, docker_up, lock_vars, status_vars, log_pc, log_name,
                   log_response>>

\* LogsBody without the placeholder
LogsBody_Raw(output) == output

\* the text returned for the collected output
LogsBody(output) == IF output = <<>> THEN NoLogs ELSE output

\* logs.next().await returns None or Some(Err(_)): the loop ends
LogsEnd ==
    /\ log_pc = "streaming"
    /\ IF log_stream = <<>> THEN TRUE ELSE ~Head(log_stream).ok
    /\ log_response' = LogsBody(log_output)
    /\ log_pc' = "done"
    /\ UNCHANGED <<env_vars, docker_up, lock_vars, status_vars, log_name, log_stream,
                   log_seen, log_output>>

StatusStep(r) ==
    \/ Arrive(r)
    \/ LockSys(r)
    \/ HardwareStats(r)
    \/ LockNet(r)
    \/ ReadNetworks(r)
    \/ PrimaryDone(r)
    \/ FallbackDone(r)
    \/ ScanDone(r)
    \/ ContainersDone(r)
    \/ ImagesDone(r)

LogsStep == LogsStart \/ LogsNext \/ LogsEnd

Next ==
    \/ \E r \in Requests : StatusStep(r)
    \/ LogsStep
    \/ DockerToggle

Spec == Init /\ [][Next]_vars

\* the requests of one client, one after the other
NextOne == StatusStep(1)

\* tokio polls every task that can make progress
FairSpec == Spec /\ \A r \in Requests : WF_vars(StatusStep(r))

InitDisk ==
    /\ overflow_checks \in BOOLEAN
    /\ host \in DiskHosts
    /\ docker_up = TRUE
    /\ Idle

SpecDisk == InitDisk /\ [][NextOne]_vars

InitProc ==
    /\ overflow_checks = FALSE
    /\ host \in ProcHosts
    /\ docker_up = TRUE
    /\ Idle

SpecProc == InitProc /\ [][NextOne]_vars

InitProbe ==
    /\ overflow_checks = FALSE
    /\ host \in ProbeHosts
    /\ docker_up \in BOOLEAN
    /\ Idle

SpecProbe == InitProbe /\ [][NextOne]_vars

InitLogs ==
    /\ overflow_checks = FALSE
    /\ host \in LogHosts
    /\ docker_up \in BOOLEAN
    /\ Idle

SpecLogs == InitLogs /\ [][LogsStep \/ DockerToggle]_vars

(***************************************************************************)
(* Properties.                                                             *)
(***************************************************************************)
\* the points where a task is suspended in an await, and its end
Suspended == {"await_primary", "await_fallback", "await_scan",
              "await_containers", "await_images"}
PastProbe == {"await_scan", "await_containers", "await_images", "done"}
PastScan == {"await_containers", "await_images", "done"}
PastStepOne == {"lock_net", "in_net"} \cup Suspended \cup {"done"}

\* C1: a task that is suspended in one of the awaits of get_full_status, or
\* has returned, holds neither the sys mutex nor the networks mutex: both
\* are released before the first await and not taken again.
C1_NoLockAcrossAwait ==
    \A r \in Requests :
        pc[r] \in Suspended \cup {"done"} =>
            /\ r \notin sys_holders
            /\ r \notin net_holders

\* a task waits for its container listing while another one is inside the
\* sys critical section and a third party could take the networks lock
C1_Witness ==
    \E r, q \in Requests :
        /\ pc[r] = "await_containers"
        /\ pc[q] = "in_sys"
        /\ sys_holders = {q}
        /\ net_holders = {}

\* fractions a and b are the same number
SameNumber(a, b) == a.num * b.den = b.num * a.den

\* t microseconds, in milliseconds
Millis(t) == [num |-> t, den |-> 1000]

\* what the probe of host h reports: the time from the start of the probe to
\* the first successful connect, 0 when both connects fail
ExpectedLatency(h) ==
    IF h.primary.ok THEN Millis(h.primary.dur)
    ELSE IF h.fallback.ok THEN Millis(h.primary.dur + h.fallback.dur)
    ELSE Millis(0)

\* C2: when list_containers and list_images both fail, the request still
\* ends with a FullStatus; its containers and images are empty and every
\* other field is what the host gives, as with a reachable runtime.  No task
\* dies once step 1 is behind it, so the errors never cost the response.
C2_RuntimeDown ==
    \A r \in Requests :
        /\ pc[r] = "panicked" => hw[r] = NoHardware /\ c_result[r] = NoResult
        /\ (pc[r] = "done" /\ ~c_result[r].ok /\ ~i_result[r].ok) =>
              /\ response[r].containers = <<>>
              /\ response[r].images = <<>>
              /\ response[r] =
                    FullStatusOf(HardwareOf(host), NetworksOf(host.interfaces),
                                 response[r].internet_latency_ms,
                                 get_top_ram_processes(host.proc), <<>>, <<>>)
              /\ SameNumber(response[r].internet_latency_ms, ExpectedLatency(host))
              /\ response[r].disks # <<>>
              /\ response[r].processes # <<>>

C2_Witness ==
    \E r \in Requests :
        /\ pc[r] = "done"
        /\ ~c_result[r].ok
        /\ ~i_result[r].ok
        /\ response[r].internet_latency_ms.num > 0

\* C3 (as claimed): a failed container listing leaves the images field what
\* it is when the listing succeeds.
C3_ImagesUntouched ==
    \A r \in Requests :
        (pc[r] = "done" /\ i_result[r].ok) =>
            response[r].images =
                ImagesOf(i_result[r], UsedImageIdsOf(Listing(TRUE, host.containers)))

\* the image ids the runtime of the host knows, from images and containers
HostIds ==
    {host.images[k].id : k \in 1..Len(host.images)}
    \cup {host.containers[k].image_id[1] :
            k \in {j \in 1..Len(host.containers) : host.containers[j].image_id # None}}

\* C4: an image of a response is in_use exactly when a container of the
\* listing of the same request names its full id; the set of ids is complete
\* when the image listing is awaited.
C4_InUseIffReferenced ==
    \A r \in Requests :
        /\ used_image_ids[r] \subseteq HostIds
        /\ pc[r] \in {"await_images", "done"} =>
              \A id \in HostIds :
                  id \in used_image_ids[r] <=>
                      /\ c_result[r].ok
                      /\ \E j \in 1..Len(c_result[r].list) :
                            c_result[r].list[j].image_id = Some(id)
        /\ pc[r] = "done" =>
              /\ Len(response[r].images) = Len(i_result[r].list)
              /\ \A i \in 1..Len(response[r].images) :
                    response[r].images[i].in_use <=>
                        /\ c_result[r].ok
                        /\ \E j \in 1..Len(c_result[r].list) :
                              c_result[r].list[j].image_id
                                  = Some(i_result[r].list[i].id)

\* two finished requests, one with a container listing and an image in use
\* and one not in use, the other without a listing and no image in use
C4_Witness ==
    \E r, q \in Requests :
        /\ pc[r] = "done" /\ pc[q] = "done"
        /\ c_result[r].ok /\ ~c_result[q].ok
        /\ i_result[r].ok /\ i_result[q].ok
        /\ \E i, k \in 1..Len(response[r].images) :
              response[r].images[i].in_use /\ ~response[r].images[k].in_use
        /\ \A i \in 1..Len(response[q].images) : ~response[q].images[i].in_use

\* the entries of a /proc listing that are processes with a readable size
ProcIndexes(table) ==
    {i \in 1..Len(table) :
        table[i].meta # "file" /\ table[i].numeric /\ table[i].statm # None}

Min(a, b) == IF a <= b THEN a ELSE b

\* out holds the ram_mb of the (at most 3) largest entries of `table` among
\* those of index set E, largest first
IsTopThree(out, table, E) ==
    LET ram(i) == RamMbOf(table[i].statm[1])
        values == {ram(i) : i \in E} \cup {out[k].ram_mb : k \in 1..Len(out)}
        inE(v) == Cardinality({i \in E : ram(i) = v})
        aboveE(v) == Cardinality({i \in E : ram(i) > v})
        inOut(v) == Cardinality({k \in 1..Len(out) : out[k].ram_mb = v})
    IN  /\ Len(out) = Min(3, Cardinality(E))
        /\ \A k \in 1..(Len(out) - 1) : out[k].ram_mb >= out[k + 1].ram_mb
        /\ \A v \in values :
              inOut(v) = Min(inE(v), IF aboveE(v) >= 3 THEN 0 ELSE 3 - aboveE(v))

MulGib(a) == [i \in 1..NumLimbs |-> IF i <= 3 THEN 0 ELSE a[i - 3]]

RECURSIVE Carry(_, _, _)
\* the carry out of limb i of a + b
Carry(a, b, i) ==
    IF i = 0 THEN 0
    ELSE IF a[i] + b[i] + Carry(a, b, i - 1) >= LimbBase(i) THEN 1 ELSE 0

Add64(a, b) ==
    [i \in 1..NumLimbs |-> (a[i] + b[i] + Carry(a, b, i - 1)) % LimbBase(i)]

\* g = floor((total - available) / 2^30), over the integers:
\* total = g * 2^30 + available + rest with 0 <= rest < 2^30
IsUsedGib(g, total, available) ==
    LET low == Add64(MulGib(g), available)
    IN  /\ \A i \in 5..NumLimbs : g[i] = 0
        /\ g[4] < TopLimbBase
        /\ Carry(MulGib(g), available, NumLimbs) = 0
        /\ Leq64(low, total)
        /\ DivGib(WrappingSub(total, low)) = Zero64

\* C6 (as claimed): for every disk the provider reports, used_gb is
\* floor((total - available) / 2^30), total_gb is floor(total / 2^30) and
\* used_gb <= total_gb.
C6_UsedWithinTotal ==
    \A r \in Requests :
        pc[r] \in PastStepOne =>
            \A i \in 1..Len(hw[r].disks) :
                /\ IsUsedGib(hw[r].disks[i].used_gb,
                             host.disks[i].total, host.disks[i].available)
                /\ IsUsedGib(hw[r].disks[i].total_gb, host.disks[i].total, Zero64)
                /\ Leq64(hw[r].disks[i].used_gb, hw[r].disks[i].total_gb)

\* C6, on the disks whose available space does not exceed their total
C6_UsedWithinTotalWhenSane ==
    \A r \in Requests :
        pc[r] \in PastStepOne =>
            \A i \in 1..Len(hw[r].disks) :
                Leq64(host.disks[i].available, host.disks[i].total) =>
                    /\ IsUsedGib(hw[r].disks[i].used_gb,
                                 host.disks[i].total, host.disks[i].available)
                    /\ IsUsedGib(hw[r].disks[i].total_gb, host.disks[i].total, Zero64)
                    /\ Leq64(hw[r].disks[i].used_gb, hw[r].disks[i].total_gb)

\* C7: measure_latency connects to the primary address first, and to the
\* fallback address only after the primary connect failed, then once: at most
\* two attempts.  It returns 0 when both fail, a positive value when one
\* succeeds, never a negative one.
C7_ProbeOrder ==
    \A r \in Requests :
        /\ pc[r] = "await_primary" => probe[r].attempts = <<"1.1.1.1:53">>
        /\ pc[r] = "await_fallback" =>
              /\ ~host.primary.ok
              /\ probe[r].attempts = <<"1.1.1.1:53", "8.8.8.8:53">>
        /\ pc[r] \in PastProbe =>
              /\ probe[r].attempts =
                    IF host.primary.ok THEN <<"1.1.1.1:53">>
                    ELSE <<"1.1.1.1:53", "8.8.8.8:53">>
              /\ latency[r].den > 0
              /\ latency[r].num >= 0
              /\ (~host.primary.ok /\ ~host.fallback.ok) => latency[r].num = 0
              /\ (host.primary.ok \/ host.fallback.ok) => latency[r].num > 0

\* the primary connect failed, the fallback connect succeeded
C7_Witness ==
    \E r \in Requests :
        /\ pc[r] = "done"
        /\ Len(probe[r].attempts) = 2
        /\ response[r].internet_latency_ms.num > 0

\* C8 (as claimed): when the stream yields no line, the text returned is not
\* empty and contains the name of the container asked for and the window.
C8_PlaceholderNamesContainer ==
    (log_pc = "done" /\ log_seen = 0) =>
        /\ log_response # <<>>
        /\ Contains(log_response, log_name)
        /\ Contains(log_response, <<"3", "0", "m">>)

\* C8 (amended): when the stream yields no line, the text returned is the
\* fixed text "No logs in last 30m.", whatever the container asked for: it is
\* not empty and names the window.
C8_PlaceholderFixed ==
    (log_pc = "done" /\ log_seen = 0) =>
        /\ log_response = NoLogs
        /\ Len(log_response) = 20
        /\ Contains(log_response, <<"3", "0", "m">>)

\* the container logged, but nothing within the window: the stream ends
\* without an item
C8_Witness ==
    /\ log_pc = "done"
    /\ log_seen = 0
    /\ log_stream = <<>>
    /\ log_name = <<"w", "e", "b">>
    /\ host.web_logs # <<>>
    /\ log_response = NoLogs

\* C9 (as claimed): the latency of a successful probe is the duration of the
\* connect that succeeded.
C9_HandshakeOnly ==
    \A r \in Requests :
        (pc[r] \in PastProbe /\ (host.primary.ok \/ host.fallback.ok)) =>
            SameNumber(latency[r],
                       Millis(IF host.primary.ok THEN host.primary.dur
                              ELSE host.fallback.dur))

\* at most one task inside each critical section, none inside both
C10_Exclusion ==
    /\ Cardinality(sys_holders) <= 1
    /\ Cardinality(net_holders) <= 1
    /\ sys_holders \cap net_holders = {}
    /\ \A r \in Requests : r \in sys_holders <=> pc[r] = "in_sys"
    /\ \A r \in Requests : r \in net_holders <=> pc[r] = "in_net"

\* C10 (as claimed): the critical sections exclude each other, and under fair
\* scheduling every request that starts collecting ends with its response.
C10_EveryRequestDone ==
    /\ []C10_Exclusion
    /\ \A r \in Requests : (pc[r] = "lock_sys") ~> (pc[r] = "done")

====
